---------------------------- MODULE Spec2Model ----------------------------
(***************************************************************************)
(* abcrab: the pitch and length parsers of src/lib.rs and src/parser.rs,   *)
(* the canonical duration table of Length::new and the Display             *)
(* implementations, as a state machine of independent calls.               *)
(*                                                                         *)
(* A &str is a sequence of one-character strings.  A nom IResult is a      *)
(* record [ok, rest, val, err]: err = "Error" is Err(nom::Err::Error), the *)
(* recoverable error that alt and opt react to.  A Result<Length, _> is    *)
(* the same record with err = "IllegalLength", and err = "Panic" is a      *)
(* call that unwinds instead of returning.                                 *)
(***************************************************************************)
EXTENDS Integers, Sequences, FiniteSets, TLC

VARIABLES
    pc,      \* "idle", "returned" (a call has returned) or "rendered"
    call,    \* the function the caller ran last
    arg,     \* its argument
    ratio,   \* the (numerator, denominator) handed to Length::new, <<>> if none
    result   \* what it returned

vars == <<pc, call, arg, ratio, result>>

(***************************************************************************)
(* Bounds of the model.                                                    *)
(***************************************************************************)
\* longest pitch text drawn over the whole pitch alphabet
MaxPitchLen == 3
\* longest run of octave marks after a key in the structured pitch texts
MaxMarks == 5

(***************************************************************************)
(* Characters.                                                             *)
(***************************************************************************)
\* Unicode scalar values of the characters the model draws from; char
\* comparison in satisfy() is comparison of these.
CodePoint(ch) ==
    CASE ch = "'" -> 39  [] ch = "," -> 44  [] ch = "/" -> 47
      [] ch = "0" -> 48  [] ch = "1" -> 49  [] ch = "2" -> 50
      [] ch = "3" -> 51  [] ch = "4" -> 52  [] ch = "5" -> 53
      [] ch = "6" -> 54  [] ch = "7" -> 55  [] ch = "8" -> 56
      [] ch = "9" -> 57  [] ch = "=" -> 61  [] ch = ">" -> 62
      [] ch = "@" -> 64
      [] ch = "A" -> 65  [] ch = "B" -> 66  [] ch = "C" -> 67
      [] ch = "D" -> 68  [] ch = "E" -> 69  [] ch = "F" -> 70
      [] ch = "G" -> 71  [] ch = "H" -> 72
      [] ch = "^" -> 94  [] ch = "_" -> 95
      [] ch = "a" -> 97  [] ch = "b" -> 98  [] ch = "c" -> 99
      [] ch = "d" -> 100 [] ch = "e" -> 101 [] ch = "f" -> 102
      [] ch = "g" -> 103 [] ch = "h" -> 104

\* char::to_ascii_uppercase: a-z lose bit 0x20, every other char is kept.
to_ascii_uppercase(ch) ==
    CASE ch = "a" -> "A" [] ch = "b" -> "B" [] ch = "c" -> "C"
      [] ch = "d" -> "D" [] ch = "e" -> "E" [] ch = "f" -> "F"
      [] ch = "g" -> "G" [] ch = "h" -> "H"
      [] OTHER -> ch

(***************************************************************************)
(* nom combinators, as far as the parsers use them.                        *)
(***************************************************************************)
Ok(rest, val) == [ok |-> TRUE, rest |-> rest, val |-> val, err |-> "none"]

Fail(input, err) == [ok |-> FALSE, rest |-> input, val |-> <<>>, err |-> err]

Err(input) == Fail(input, "Error")

Drop(input, n) == SubSeq(input, n + 1, Len(input))

\* bytes::complete::tag
tag(t, input) ==
    IF Len(input) >= Len(t) /\ SubSeq(input, 1, Len(t)) = t
    THEN Ok(Drop(input, Len(t)), t)
    ELSE Err(input)

\* combinator::value(v, tag(t))
value_tag(v, t, input) ==
    LET r == tag(t, input) IN IF r.ok THEN Ok(r.rest, v) ELSE r

\* number of leading repetitions of the one-character tag t
RECURSIVE CountTag(_, _)
CountTag(t, input) ==
    LET r == tag(t, input) IN
    IF r.ok THEN 1 + CountTag(t, r.rest) ELSE 0

\* multi::many1_count(tag(t)): at least one repetition, else Err::Error
many1_count(t, input) ==
    LET n == CountTag(t, input) IN
    IF n = 0 THEN Err(input) ELSE Ok(Drop(input, n * Len(t)), n)

\* branch::alt over a sequence of results of the alternatives on the same
\* input: the first alternative that succeeds decides.
RECURSIVE alt(_)
alt(rs) ==
    IF Len(rs) = 1 \/ Head(rs).ok THEN Head(rs) ELSE alt(Tail(rs))

\* combinator::opt: a recoverable error becomes None with nothing consumed
opt(r, input) == IF r.ok THEN r ELSE Ok(input, "None")

(***************************************************************************)
(* accidental and octave_count.                                            *)
(***************************************************************************)
\* a plausible slip: the one-character markers tried before the doubles
accidental_singles_first(input) ==
    alt(<< value_tag("Sharp", <<"^">>, input),
           value_tag("Sharp2", <<"^", "^">>, input),
           value_tag("Flat", <<"_">>, input),
           value_tag("Flat2", <<"_", "_">>, input),
           value_tag("Natural", <<"=">>, input) >>)

accidental(input) ==
    alt(<< value_tag("Sharp2", <<"^", "^">>, input),
           value_tag("Sharp", <<"^">>, input),
           value_tag("Flat2", <<"_", "_">>, input),
           value_tag("Flat", <<"_">>, input),
           value_tag("Natural", <<"=">>, input) >>)

up_count(input) == many1_count(<<"'">>, input)

down_count(input) ==
    LET r == many1_count(<<",">>, input) IN
    IF r.ok THEN Ok(r.rest, (-1) * r.val) ELSE r

\* multi::fold_many0(alt((up_count, down_count)), Vec::new, push)
RECURSIVE fold_many0(_, _)
fold_many0(input, acc) ==
    LET r == alt(<<up_count(input), down_count(input)>>) IN
    IF r.ok THEN fold_many0(r.rest, Append(acc, r.val)) ELSE Ok(input, acc)

\* v.iter().sum()
RECURSIVE sum(_)
sum(v) == IF v = <<>> THEN 0 ELSE Head(v) + sum(Tail(v))

\* a plausible slip: only the first run of marks is read
octave_count_first_run(input) ==
    LET r == alt(<<up_count(input), down_count(input)>>) IN
    IF r.ok THEN r ELSE Ok(input, 0)

octave_count(input) ==
    LET r == fold_many0(input, <<>>) IN Ok(r.rest, sum(r.val))

(***************************************************************************)
(* pitch.                                                                  *)
(***************************************************************************)
\* character::complete::satisfy(|ch| ch >= lo && ch <= hi)
satisfy_range(lo, hi, input) ==
    IF input /= <<>> /\ CodePoint(Head(input)) >= CodePoint(lo)
                     /\ CodePoint(Head(input)) <= CodePoint(hi)
    THEN Ok(Tail(input), Head(input))
    ELSE Err(input)

\* a plausible slip: the upper end of the range one letter too far
low_through_H(input) == satisfy_range("A", "H", input)

low(input) == satisfy_range("A", "G", input)

\* the older convention: the lowercase letter leaves the octave alone
high_no_offset(input) ==
    LET r == satisfy_range("a", "g", input) IN
    IF r.ok THEN Ok(r.rest, [key |-> to_ascii_uppercase(r.val), inc |-> 0])
    ELSE r

\* map(high, |ch| { octave += 1; ch.to_ascii_uppercase() }); inc is what the
\* closure adds to the captured octave.
high(input) ==
    LET r == satisfy_range("a", "g", input) IN
    IF r.ok THEN Ok(r.rest, [key |-> to_ascii_uppercase(r.val), inc |-> 1])
    ELSE r

some_key(input) ==
    LET l == low(input) IN
    alt(<< high(input),
           IF l.ok THEN Ok(l.rest, [key |-> l.val, inc |-> 0]) ELSE l >>)

Note(octave, key, acc, length) ==
    [octave |-> octave, key |-> key, accidental |-> acc, length |-> length]

Length(shape, dot) == [note_shape |-> shape, dot |-> dot]

\* the octave pitch starts from
ReferenceOctave == 4

pitch(input) ==
    LET a == opt(accidental(input), input)
        k == some_key(a.rest)
        m == octave_count(k.rest)
    IN  IF ~k.ok THEN Err(input)
        ELSE Ok(m.rest,
                Note(ReferenceOctave + k.val.inc + m.val, k.val.key, a.val,
                     Length("Eighth", 0)))


(***************************************************************************)
(* Length::new: Rational32::new and the table of canonical durations.      *)
(***************************************************************************)
Abs(n) == IF n < 0 THEN 0 - n ELSE n

RECURSIVE gcd(_, _)
gcd(a, b) == IF b = 0 THEN Abs(a) ELSE gcd(b, a % Abs(b))

Ratio(numer, denom) == [defined |-> TRUE, numer |-> numer, denom |-> denom]

\* the end of Ratio::reduce: both divided by the gcd, keeping the denominator
\* positive
reduce_by(numer, denom, g) ==
    IF denom < 0
    THEN Ratio((0 - numer) \div g, (0 - denom) \div g)
    ELSE Ratio(numer \div g, denom \div g)

\* Ratio::new = new_raw then reduce(): a zero denominator panics
Rational32_new(numer, denom) ==
    IF denom = 0 THEN [defined |-> FALSE, numer |-> numer, denom |-> denom]
    ELSE IF numer = 0 THEN Ratio(0, 1)
    ELSE IF numer = denom THEN Ratio(1, 1)
    ELSE reduce_by(numer, denom, gcd(numer, denom))

\* a plausible slip in the table: 7/128 given the single dot of 3/64
DurationTable_wrong_dot ==
    << <<1, 128, "Hundred28th", 0>>,
       <<1, 64, "SixtyFourth", 0>>,   <<3, 128, "SixtyFourth", 1>>,
       <<1, 32, "ThirtySecond", 0>>,  <<3, 64, "ThirtySecond", 1>>,
       <<7, 128, "ThirtySecond", 1>>,
       <<1, 16, "Sixteenth", 0>>,     <<3, 32, "Sixteenth", 1>>,
       <<7, 64, "Sixteenth", 2>>,     <<15, 128, "Sixteenth", 3>>,
       <<1, 8, "Eighth", 0>>,         <<3, 16, "Eighth", 1>>,
       <<7, 32, "Eighth", 2>>,        <<15, 64, "Eighth", 3>>,
       <<1, 4, "Quarter", 0>>,        <<3, 8, "Quarter", 1>>,
       <<7, 16, "Quarter", 2>>,       <<15, 32, "Quarter", 3>>,
       <<1, 2, "Half", 0>>,           <<3, 4, "Half", 1>>,
       <<7, 8, "Half", 2>>,           <<15, 16, "Half", 3>>,
       <<1, 1, "Whole", 0>>,          <<3, 2, "Whole", 1>>,
       <<7, 4, "Whole", 2>>,          <<15, 8, "Whole", 3>>,
       <<2, 1, "Breve", 0>>,          <<3, 1, "Breve", 1>>,
       <<7, 2, "Breve", 2>>,          <<15, 4, "Breve", 3>> >>

\* the arms of the match in Length::new, in source order:
\* <<numer, denom, note_shape, dot>>
DurationTable ==
    << <<1, 128, "Hundred28th", 0>>,
       <<1, 64, "SixtyFourth", 0>>,   <<3, 128, "SixtyFourth", 1>>,
       <<1, 32, "ThirtySecond", 0>>,  <<3, 64, "ThirtySecond", 1>>,
       <<7, 128, "ThirtySecond", 2>>,
       <<1, 16, "Sixteenth", 0>>,     <<3, 32, "Sixteenth", 1>>,
       <<7, 64, "Sixteenth", 2>>,     <<15, 128, "Sixteenth", 3>>,
       <<1, 8, "Eighth", 0>>,         <<3, 16, "Eighth", 1>>,
       <<7, 32, "Eighth", 2>>,        <<15, 64, "Eighth", 3>>,
       <<1, 4, "Quarter", 0>>,        <<3, 8, "Quarter", 1>>,
       <<7, 16, "Quarter", 2>>,       <<15, 32, "Quarter", 3>>,
       <<1, 2, "Half", 0>>,           <<3, 4, "Half", 1>>,
       <<7, 8, "Half", 2>>,           <<15, 16, "Half", 3>>,
       <<1, 1, "Whole", 0>>,          <<3, 2, "Whole", 1>>,
       <<7, 4, "Whole", 2>>,          <<15, 8, "Whole", 3>>,
       <<2, 1, "Breve", 0>>,          <<3, 1, "Breve", 1>>,
       <<7, 2, "Breve", 2>>,          <<15, 4, "Breve", 3>> >>

\* match (rr.numer(), rr.denom()): the first arm whose pattern is the pair,
\* the wildcard arm when there is none
RECURSIVE match_arm(_, _, _)
match_arm(arms, numer, denom) ==
    IF arms = <<>> THEN Fail(<<>>, "IllegalLength")
    ELSE IF Head(arms)[1] = numer /\ Head(arms)[2] = denom
         THEN Ok(<<>>, Length(Head(arms)[3], Head(arms)[4]))
         ELSE match_arm(Tail(arms), numer, denom)

\* let dur = match (rr.numer(), rr.denom()) { .. }
match_ratio(rr) ==
    IF ~rr.defined THEN Fail(<<>>, "Panic")
    ELSE match_arm(DurationTable, rr.numer, rr.denom)

\* a plausible slip: the pair is matched as given, without reducing it
Length_new_unreduced(r) ==
    IF r[2] = 0 THEN Fail(<<>>, "Panic")
    ELSE match_arm(DurationTable, r[1], r[2])

Length_new(r) == match_ratio(Rational32_new(r[1], r[2]))

(***************************************************************************)
(* length.                                                                 *)
(***************************************************************************)
\* i32::MAX, the largest value str::parse::<i32> returns
I32Max == 2147483647

IsDigit(ch) == CodePoint(ch) >= CodePoint("0") /\ CodePoint(ch) <= CodePoint("9")

RECURSIVE CountDigits(_)
CountDigits(input) ==
    IF input /= <<>> /\ IsDigit(Head(input))
    THEN 1 + CountDigits(Tail(input))
    ELSE 0

\* character::complete::digit1: the longest leading run of ASCII digits,
\* Err::Error when it is empty
digit1(input) ==
    LET n == CountDigits(input) IN
    IF n = 0 THEN Err(input) ELSE Ok(Drop(input, n), SubSeq(input, 1, n))

\* str::parse::<i32> on a digit run: checked_mul(10) then checked_add(digit)
\* from the left; -1 stands for Err(PosOverflow)
RECURSIVE parse_i32(_, _)
parse_i32(s, acc) ==
    IF s = <<>> THEN acc
    ELSE LET digit == CodePoint(Head(s)) - CodePoint("0") IN
         IF acc > I32Max \div 10 THEN -1
         ELSE IF acc * 10 > I32Max - digit THEN -1
         ELSE parse_i32(Tail(s), acc * 10 + digit)

\* the closure result of map_res: Err(ParseIntError) becomes Err::Error
map_res_i32(input, rest, n) == IF n < 0 THEN Err(input) ELSE Ok(rest, n)

parse_run(input, r) ==
    IF r.ok THEN map_res_i32(input, r.rest, parse_i32(r.val, 0)) ELSE r

\* map_res(digit1, |s| s.parse::<i32>())
num(input) == parse_run(input, digit1(input))

\* preceded(first, second), given the result of first
preceded_num(input, s) == IF s.ok THEN num(s.rest) ELSE s

\* preceded(tag("/"), num)
slash_then_num(input) == preceded_num(input, tag(<<"/">>, input))

pair_with(numer, d) == IF d.ok THEN Ok(d.rest, <<numer, d.val>>) ELSE d

tuple_num_num(n) ==
    IF n.ok THEN pair_with(n.val, slash_then_num(n.rest)) ELSE n

\* tuple((num1, preceded(tag("/"), num2)))
num_num(input) == tuple_num_num(num(input))

\* map(preceded(tag("/"), num3), |n| (1, n))
slash_num(input) == pair_with(1, slash_then_num(input))

\* i32::pow(2, n): -1 stands for the overflow, which panics in a debug build
\* and wraps (to i32::MIN for n = 31, to 0 past it) in a release build
pow2_i32(n) == IF n >= 31 THEN -1 ELSE 2 ^ n

pow_count(c) == IF c.ok THEN Ok(c.rest, <<1, pow2_i32(c.val)>>) ELSE c

\* map(many1_count(tag("/")), |n| (1, base2.pow(n as u32)))
slash_only(input) == pow_count(many1_count(<<"/">>, input))

\* alt((num_num, slash_num, slash_only))(input)
length_alt(input) ==
    alt(<<num_num(input), slash_num(input), slash_only(input)>>)

\* Ok((rest, Length::new((numer, denom)).unwrap())): Err(IllegalLength) and
\* a zero denominator panic
unwrap_new(input, rest, l) ==
    IF l.ok THEN Ok(rest, l.val) ELSE Fail(input, "Panic")

\* the `?` on the lexed pair.  After base2.pow overflowed every build
\* panics: the debug build in pow, the release build in Rational32::new
\* (denominator 0) or in the unwrap (1/i32::MIN).
length_of(input, p) ==
    IF ~p.ok THEN Err(input)
    ELSE IF p.val[2] < 0 THEN Fail(input, "Panic")
    ELSE unwrap_new(input, p.rest, Length_new(p.val))

length(input) == length_of(input, length_alt(input))

handed_ratio(p) == IF p.ok /\ p.val[2] >= 0 THEN p.val ELSE <<>>

\* the pair length hands to Length::new, <<>> when it does not get there
length_ratio(input) == handed_ratio(length_alt(input))

(***************************************************************************)
(* Display.                                                                *)
(***************************************************************************)
\* the glyphs, named by their code points
Accidental_fmt(a) ==
    CASE a = "Flat2" -> "U+1D12B"
      [] a = "Flat" -> "U+266D"
      [] a = "Natural" -> "U+266E"
      [] a = "Sharp" -> "U+266F"
      [] a = "Sharp2" -> "U+1D12A"

NoteShape_fmt(s) ==
    CASE s = "Hundred28th" -> "U+1D164"
      [] s = "SixtyFourth" -> "U+1D163"
      [] s = "ThirtySecond" -> "U+1D162"
      [] s = "Sixteenth" -> "U+1D161"
      [] s = "Eighth" -> "U+1D160"
      [] s = "Quarter" -> "U+1D15F"
      [] s = "Half" -> "U+1D15E"
      [] s = "Whole" -> "U+1D15D"
      [] s = "Breve" -> "U+1D15C"

DOT == "U+1D16D"

DigitChar(d) ==
    CASE d = 0 -> "0" [] d = 1 -> "1" [] d = 2 -> "2" [] d = 3 -> "3"
      [] d = 4 -> "4" [] d = 5 -> "5" [] d = 6 -> "6" [] d = 7 -> "7"
      [] d = 8 -> "8" [] d = 9 -> "9"

RECURSIVE DecimalText(_)
DecimalText(n) ==
    IF n < 10 THEN <<DigitChar(n)>>
    ELSE Append(DecimalText(n \div 10), DigitChar(n % 10))

\* Display for i32: a minus sign, then the decimal digits
i32_fmt(n) == IF n < 0 THEN <<"-">> \o DecimalText(0 - n) ELSE DecimalText(n)

\* for _ in 0..dot { write!(f, "{}", DOT) }
RECURSIVE Dots(_)
Dots(dot) == IF dot <= 0 THEN <<>> ELSE <<DOT>> \o Dots(dot - 1)

Length_fmt(l) == <<NoteShape_fmt(l.note_shape)>> \o Dots(l.dot)

\* a plausible slip: the octave is written whatever it is
Note_fmt_always_octave(n) ==
    <<"<", n.key>>
    \o (IF n.accidental /= "None" THEN <<Accidental_fmt(n.accidental)>> ELSE <<>>)
    \o <<" ">> \o Length_fmt(n.length)
    \o <<" ", "@">> \o i32_fmt(n.octave) \o <<">">>

Note_fmt(n) ==
    <<"<", n.key>>
    \o (IF n.accidental /= "None" THEN <<Accidental_fmt(n.accidental)>> ELSE <<>>)
    \o <<" ">> \o Length_fmt(n.length)
    \o (IF n.octave /= ReferenceOctave
        THEN <<" ", "@">> \o i32_fmt(n.octave) \o <<">">>
        ELSE <<">">>)

(***************************************************************************)
(* Inputs.                                                                 *)
(***************************************************************************)
\* longest run of slashes in a length text
MaxSlashes == 8
\* largest numerator written in a length text
MaxNumerText == 16
\* largest denominator of the dense range written in a length text
MaxDenomText == 9
\* largest numerator and denominator handed to Length::new directly
MaxNumer == 32
MaxDenom == 256

SeqsUpTo(S, n) == UNION {[1..k -> S] : k \in 0..n}

AccidentalChars == {"^", "_", "="}

MarkChars == {"'", ","}

KeyLetters == {"A", "B", "C", "D", "E", "F", "G",
               "a", "b", "c", "d", "e", "f", "g"}

\* markers, marks, letters at the edges of both ranges and just outside
PitchAlphabet ==
    AccidentalChars \cup MarkChars \cup {"A", "G", "H", "b", "g", "h", "@"}

AccidentalTexts == {<<>>, <<"^">>, <<"^", "^">>, <<"_">>, <<"_", "_">>, <<"=">>}

\* every text up to MaxPitchLen over the alphabet, and every key letter
\* behind every marker with every run of marks, alone or before more text
PitchTexts ==
    SeqsUpTo(PitchAlphabet, MaxPitchLen)
    \cup {a \o <<l>> \o m \o t :
             a \in AccidentalTexts, l \in KeyLetters,
             m \in SeqsUpTo(MarkChars, MaxMarks),
             t \in {<<>>, <<">", "c", "d">>}}

MarkTexts ==
    {m \o t : m \in SeqsUpTo(MarkChars, MaxMarks), t \in {<<>>, <<"A">>, <<"=", ",">>}}

\* digit runs at and past i32::MAX
LongDigitRuns ==
    { <<"2","1","4","7","4","8","3","6","4","7">>,
      <<"2","1","4","7","4","8","3","6","4","8">>,
      <<"9","9","9","9","9","9","9","9","9","9","9">> }

Slashes(k) == [i \in 1..k |-> "/"]

NumerTexts ==
    {<<>>, <<"0", "7">>} \cup {DecimalText(n) : n \in 0..MaxNumerText} \cup LongDigitRuns

DenomTexts ==
    {<<>>, <<"0", "8">>} \cup {DecimalText(n) : n \in 0..MaxDenomText}
    \cup {DecimalText(n) : n \in {16, 32, 64, 128, 256}} \cup LongDigitRuns

\* [digits] [slashes] [digits] [tail]: the three surface forms, their
\* broken variants and text left over behind them
LengthTexts ==
    {n \o Slashes(k) \o d \o t :
        n \in NumerTexts, k \in 0..MaxSlashes, d \in DenomTexts,
        t \in {<<>>, <<"A">>}}

Ratios == (-1..MaxNumer) \X (-1..MaxDenom)

(***************************************************************************)
(* The calls.  Every call is a pure function of its argument; the caller   *)
(* holds the result until it drops it.                                     *)
(***************************************************************************)
Init ==
    /\ pc = "idle"
    /\ call = "none"
    /\ arg = <<>>
    /\ ratio = <<>>
    /\ result = <<>>

CallAccidental ==
    /\ pc = "idle"
    /\ \E text \in SeqsUpTo(PitchAlphabet, 2) :
          /\ arg' = text
          /\ result' = accidental(text)
    /\ call' = "accidental"
    /\ ratio' = <<>>
    /\ pc' = "returned"

CallOctaveCount ==
    /\ pc = "idle"
    /\ \E text \in MarkTexts :
          /\ arg' = text
          /\ result' = octave_count(text)
    /\ call' = "octave_count"
    /\ ratio' = <<>>
    /\ pc' = "returned"

CallPitch ==
    /\ pc = "idle"
    /\ \E text \in PitchTexts :
          /\ arg' = text
          /\ result' = pitch(text)
    /\ call' = "pitch"
    /\ ratio' = <<>>
    /\ pc' = "returned"

CallLengthNew ==
    /\ pc = "idle"
    /\ \E r \in Ratios :
          /\ arg' = r
          /\ ratio' = r
          /\ result' = Length_new(r)
    /\ call' = "Length::new"
    /\ pc' = "returned"

CallLength ==
    /\ pc = "idle"
    /\ \E text \in LengthTexts :
          LET handed == length_ratio(text)
              returned == length(text)
          IN  /\ arg' = text
              /\ ratio' = handed
              /\ result' = returned
    /\ call' = "length"
    /\ pc' = "returned"

\* format!("{}", note) on the Note a pitch call returned
FmtNote ==
    /\ pc = "returned"
    /\ call = "pitch"
    /\ result.ok
    /\ arg' = result.val
    /\ result' = Note_fmt(result.val)
    /\ call' = "Note::fmt"
    /\ ratio' = <<>>
    /\ pc' = "rendered"

\* format!("{}", length) on the Length that Length::new or length returned
FmtLength ==
    /\ pc = "returned"
    /\ call \in {"Length::new", "length"}
    /\ result.ok
    /\ arg' = result.val
    /\ result' = Length_fmt(result.val)
    /\ call' = "Length::fmt"
    /\ ratio' = <<>>
    /\ pc' = "rendered"

\* the caller drops what it holds
Return ==
    /\ pc /= "idle"
    /\ pc' = "idle"
    /\ call' = "none"
    /\ arg' = <<>>
    /\ ratio' = <<>>
    /\ result' = <<>>

Next ==
    \/ CallAccidental
    \/ CallOctaveCount
    \/ CallPitch
    \/ CallLengthNew
    \/ CallLength
    \/ FmtNote
    \/ FmtLength
    \/ Return

Spec == Init /\ [][Next]_vars

(***************************************************************************)
(* What the properties speak about: the shape of a text, read off the      *)
(* text itself and not off the parsers.                                    *)
(***************************************************************************)
Range(s) == {s[i] : i \in DOMAIN s}

Count(ch, s) == Cardinality({i \in DOMAIN s : s[i] = ch})

IsPrefix(p, s) == Len(p) <= Len(s) /\ SubSeq(s, 1, Len(p)) = p

\* the longest accidental marker the text starts with, <<>> if none
LongestMarker(text) ==
    CHOOSE a \in AccidentalTexts :
        /\ IsPrefix(a, text)
        /\ \A b \in AccidentalTexts : IsPrefix(b, text) => Len(b) <= Len(a)

AccidentalOfMarker(a) ==
    CASE a = <<"_", "_">> -> "Flat2"
      [] a = <<"_">> -> "Flat"
      [] a = <<"^", "^">> -> "Sharp2"
      [] a = <<"^">> -> "Sharp"
      [] a = <<"=">> -> "Natural"
      [] a = <<>> -> "None"

\* the text is an optional accidental marker, then a key letter, then more
HasKey(text) ==
    \E a \in AccidentalTexts :
        IsPrefix(a, text) /\ Len(text) > Len(a) /\ text[Len(a) + 1] \in KeyLetters

\* where that key letter is
KeyIndex(text) ==
    CHOOSE i \in 1..Len(text) :
        \E a \in AccidentalTexts :
            IsPrefix(a, text) /\ i = Len(a) + 1 /\ text[i] \in KeyLetters

\* the length of the longest run of ' and , that s starts with
LeadingMarks(s) ==
    CHOOSE n \in 0..Len(s) :
        /\ \A i \in 1..n : s[i] \in MarkChars
        /\ n = Len(s) \/ s[n + 1] \notin MarkChars

\* the octave marks behind the key letter
MarksOf(text) ==
    SubSeq(text, KeyIndex(text) + 1,
           KeyIndex(text) + LeadingMarks(Drop(text, KeyIndex(text))))

LowercaseKeys == {"a", "b", "c", "d", "e", "f", "g"}

UppercaseKeys == {"A", "B", "C", "D", "E", "F", "G"}

UpperOf(l) ==
    IF l \in UppercaseKeys THEN l
    ELSE CHOOSE u \in UppercaseKeys : CodePoint(u) = CodePoint(l) - 32

\* the mark texts with as many ' and as many , as m, in every order
Rearrangements(m) ==
    {p \in [1..Len(m) -> MarkChars] : Count("'", p) = Count("'", m)}

(***************************************************************************)
(* Properties of pitch, accidental and octave_count.                       *)
(***************************************************************************)
\* C1: for a text that is [accidental] letter [marks] (and whatever follows
\* the marks), pitch returns a Note whose octave is 4, plus 1 for a
\* lowercase letter, plus the number of ' marks minus the number of , marks,
\* and whose key is the uppercase letter; with no marks the octave is 4 for
\* an uppercase and 5 for a lowercase letter.
C1_OctaveFormula ==
    (call = "pitch" /\ HasKey(arg)) =>
        LET letter == arg[KeyIndex(arg)]
            marks == MarksOf(arg)
            offset == IF letter \in LowercaseKeys THEN 1 ELSE 0
        IN  /\ result.ok
            /\ result.val.octave =
                   4 + offset + Count("'", marks) - Count(",", marks)
            /\ result.val.key = UpperOf(letter)
            /\ marks = <<>> => result.val.octave = 4 + offset

C1_Witness ==
    /\ call = "pitch"
    /\ arg = <<"_", "_", "g", "'", "'", ",">>
    /\ result.ok
    /\ result.val.octave = 6
    /\ result.val.key = "G"

\* C2: the accidental of the returned Note is the one of the longest marker
\* the text starts with, and None (not Natural) when it starts with the key
\* letter; a double marker before a key letter succeeds with the double
\* variant; accidental alone consumes exactly that longest marker.
C2_LongestMarker ==
    /\ (call = "pitch" /\ result.ok) =>
           result.val.accidental = AccidentalOfMarker(LongestMarker(arg))
    /\ (call = "pitch" /\ Len(arg) >= 3 /\ arg[3] \in KeyLetters
          /\ SubSeq(arg, 1, 2) \in {<<"^", "^">>, <<"_", "_">>}) =>
           /\ result.ok
           /\ result.val.accidental = AccidentalOfMarker(SubSeq(arg, 1, 2))
    /\ (call = "pitch" /\ arg /= <<>> /\ arg[1] \in KeyLetters) =>
           result.ok /\ result.val.accidental = "None"
    /\ call = "accidental" =>
           /\ result.ok <=> LongestMarker(arg) /= <<>>
           /\ result.ok =>
                  /\ result.val = AccidentalOfMarker(LongestMarker(arg))
                  /\ result.rest = Drop(arg, Len(LongestMarker(arg)))

C2_Witness ==
    /\ call = "pitch"
    /\ arg = <<"^", "^", "B">>
    /\ result.ok
    /\ result.rest = <<>>
    /\ result.val.accidental = "Sharp2"

\* C7: the octave delta depends only on how many ' and how many , the run
\* of marks holds: octave_count returns the same delta, and pitch the same
\* Note, for every rearrangement of the marks; no marks give delta 0.
C7_MarkOrder ==
    /\ call = "octave_count" =>
           LET n == LeadingMarks(arg)
               marks == SubSeq(arg, 1, n)
           IN  /\ result.ok
               /\ n = 0 => result.val = 0
               /\ \A p \in Rearrangements(marks) :
                      octave_count(p \o Drop(arg, n)).val = result.val
    /\ (call = "pitch" /\ HasKey(arg)) =>
           LET k == KeyIndex(arg)
               marks == MarksOf(arg)
           IN  \A p \in Rearrangements(marks) :
                   LET other == pitch(SubSeq(arg, 1, k) \o p
                                      \o Drop(arg, k + Len(marks)))
                   IN  other.ok /\ other.val = result.val

C7_Witness ==
    /\ call = "octave_count"
    /\ arg = <<",", ",", "'", "'", ",">>
    /\ result.ok
    /\ result.val = -1

\* C10: pitch succeeds exactly on a text that is an optional accidental
\* marker and then a key letter; it then consumes marker, letter and the
\* whole run of marks behind it and returns the rest of the text untouched;
\* otherwise it returns a parse error and no Note.
C10_PrefixParser ==
    call = "pitch" =>
        /\ result.ok <=> HasKey(arg)
        /\ result.ok =>
               LET consumed == KeyIndex(arg) + Len(MarksOf(arg)) IN
               /\ result.rest = Drop(arg, consumed)
               /\ SubSeq(arg, 1, consumed) \o result.rest = arg
               /\ result.rest = <<>> \/ result.rest[1] \notin MarkChars
        /\ ~result.ok => result.err = "Error" /\ result.val = <<>>

C10_Witness ==
    /\ call = "pitch"
    /\ arg = <<"B", ">", "c", "d">>
    /\ result.ok
    /\ result.rest = <<">", "c", "d">>
    /\ result.val.key = "B"

(***************************************************************************)
(* Properties of Length::new.                                              *)
(***************************************************************************)
\* the fractions the table names
CanonicalFractions == {<<e[1], e[2]>> : e \in Range(DurationTable)}

\* numer/denom and the entry's fraction are the same number
SameFraction(numer, denom, e) == numer * e[2] = e[1] * denom

\* whether the match of Length::new decides as the claim says: success
\* exactly on a fraction equal to a table entry's, with that entry's shape
\* and dots, IllegalLength otherwise
DecidedByTable ==
    /\ result.ok <=>
           \E e \in Range(DurationTable) : SameFraction(arg[1], arg[2], e)
    /\ result.ok =>
           \E e \in Range(DurationTable) :
               /\ SameFraction(arg[1], arg[2], e)
               /\ result.val = Length(e[3], e[4])
    /\ ~result.ok => result.err = "IllegalLength"

\* C3 as stated: Length::new with a positive denominator succeeds exactly
\* when the reduced fraction is one of the 32 entries of the table, from
\* (1,128) to (15,4), and yields that entry's shape and dots; any other
\* fraction is rejected with IllegalLength.
C3_TableOf32 ==
    (call = "Length::new" /\ arg[2] > 0) =>
        /\ DecidedByTable
        /\ Cardinality(CanonicalFractions) = 32

\* C3 as amended: the table has 30 entries, not 32; the rest stands.
C3_TableOf30 ==
    (call = "Length::new" /\ arg[2] > 0) =>
        /\ DecidedByTable
        /\ Cardinality(CanonicalFractions) = 30
        /\ <<1, 128>> \in CanonicalFractions
        /\ <<15, 4>> \in CanonicalFractions

C3_Witness ==
    /\ call = "Length::new"
    /\ arg = <<30, 8>>
    /\ result.ok
    /\ result.val = Length("Breve", 3)

\* the base duration of a shape, in 128ths of a whole note
BaseUnits(shape) ==
    CASE shape = "Hundred28th" -> 1
      [] shape = "SixtyFourth" -> 2
      [] shape = "ThirtySecond" -> 4
      [] shape = "Sixteenth" -> 8
      [] shape = "Eighth" -> 16
      [] shape = "Quarter" -> 32
      [] shape = "Half" -> 64
      [] shape = "Whole" -> 128
      [] shape = "Breve" -> 256

\* numer/denom = (units/128) * (2 - 2^-dot), cleared of fractions
IsDotted(numer, denom, shape, dot) ==
    numer * 128 * (2 ^ dot) = denom * BaseUnits(shape) * (2 ^ (dot + 1) - 1)

\* C6: every Length that Length::new returns has 0 to 3 dots, and the
\* fraction handed in equals the base duration of the returned shape times
\* (2 - 2^-dot); no entry of the table breaks that equation.
C6_DotEquation ==
    (call = "Length::new" /\ result.ok) =>
        /\ result.val.dot \in 0..3
        /\ IsDotted(arg[1], arg[2], result.val.note_shape, result.val.dot)
        /\ \A e \in Range(DurationTable) :
               e[4] \in 0..3 /\ IsDotted(e[1], e[2], e[3], e[4])

C6_Witness ==
    /\ call = "Length::new"
    /\ arg = <<14, 256>>
    /\ result.ok
    /\ result.val = Length("ThirtySecond", 2)

(***************************************************************************)
(* Properties of length.                                                   *)
(***************************************************************************)
DigitChars == {"0", "1", "2", "3", "4", "5", "6", "7", "8", "9"}

\* the length of the longest run of characters of S that s starts with
LeadingRun(S, s) ==
    CHOOSE n \in 0..Len(s) :
        /\ \A i \in 1..n : s[i] \in S
        /\ n = Len(s) \/ s[n + 1] \notin S

\* the surface form a text starts with: 1 is digits "/" digits, 2 is "/"
\* digits, 3 is a run of bare slashes, 0 is none of them
SurfaceForm(text) ==
    LET n1 == LeadingRun(DigitChars, text)
        n2 == LeadingRun(DigitChars, Drop(text, n1 + 1))
        k == LeadingRun({"/"}, text)
    IN  IF n1 > 0 /\ Len(text) > n1 /\ text[n1 + 1] = "/" /\ n2 > 0 THEN 1
        ELSE IF n1 = 0 /\ k > 0 /\ n2 > 0 THEN 2
        ELSE IF k > 0 THEN 3
        ELSE 0

\* the digit runs of the form: numerator (form 1) and denominator
NumerRun(text) == SubSeq(text, 1, LeadingRun(DigitChars, text))

DenomRun(text) ==
    LET n1 == LeadingRun(DigitChars, text) IN
    SubSeq(text, n1 + 2, n1 + 1 + LeadingRun(DigitChars, Drop(text, n1 + 1)))

RECURSIVE StripZeros(_)
StripZeros(run) ==
    IF Len(run) > 1 /\ Head(run) = "0" THEN StripZeros(Tail(run)) ELSE run

RECURSIVE LexLeq(_, _)
LexLeq(a, b) ==
    \/ a = <<>>
    \/ CodePoint(Head(a)) < CodePoint(Head(b))
    \/ Head(a) = Head(b) /\ LexLeq(Tail(a), Tail(b))

\* the run names a number that a 32-bit signed integer holds
FitsI32(run) ==
    LET r == StripZeros(run) IN
    \/ Len(r) < 10
    \/ Len(r) = 10 /\ LexLeq(r, <<"2","1","4","7","4","8","3","6","4","7">>)

\* the number a digit run that fits names
RECURSIVE ValueOf(_)
ValueOf(run) ==
    IF run = <<>> THEN 0
    ELSE ValueOf(SubSeq(run, 1, Len(run) - 1)) * 10
         + (CodePoint(run[Len(run)]) - 48)

\* the digit runs of the text's surface form all fit
RunsFit(text) ==
    CASE SurfaceForm(text) = 1 -> FitsI32(NumerRun(text)) /\ FitsI32(DenomRun(text))
      [] SurfaceForm(text) = 2 -> FitsI32(DenomRun(text))
      [] OTHER -> TRUE

\* the pair the surface form stands for
FormRatio(text) ==
    CASE SurfaceForm(text) = 1 -> <<ValueOf(NumerRun(text)), ValueOf(DenomRun(text))>>
      [] SurfaceForm(text) = 2 -> <<1, ValueOf(DenomRun(text))>>
      [] SurfaceForm(text) = 3 -> <<1, 2 ^ LeadingRun({"/"}, text)>>

\* pair is a positive multiple of a fraction of the table
IsCanonical(pair) ==
    /\ pair[1] > 0
    /\ pair[2] > 0
    /\ \E e \in Range(DurationTable) :
           /\ pair[1] % e[1] = 0
           /\ pair[2] % e[2] = 0
           /\ pair[1] \div e[1] = pair[2] \div e[2]

\* C4: for a text that lexes as a well-formed duration whose fraction is
\* not a canonical one, length returns an IllegalLength error as a value,
\* apart from a parse error, and does not panic.
C4_IllegalLengthReturned ==
    (call = "length" /\ SurfaceForm(arg) /= 0 /\ RunsFit(arg)
       /\ ~IsCanonical(FormRatio(arg))) =>
        result.err = "IllegalLength"

\* C5: length recognises three surface forms in priority order and hands
\* the resolver numerator and denominator as written for digits "/" digits,
\* 1 and the denominator as written for "/" digits, 1 and 2^k for k bare
\* slashes; a text of none of the forms fails with a parse error; "7/16"
\* is (Quarter, 2 dots), "/2" (Half, 0 dots), "//" (Quarter, 0 dots).  A
\* form whose digits no 32-bit integer holds is read as the parse error the
\* specification asks for.
C5_SurfaceForms ==
    call = "length" =>
        /\ SurfaceForm(arg) = 0 => result.err = "Error" /\ ratio = <<>>
        /\ (SurfaceForm(arg) /= 0 /\ RunsFit(arg)) => ratio = FormRatio(arg)
        /\ (SurfaceForm(arg) /= 0 /\ ~RunsFit(arg)) =>
               result.err = "Error" /\ ratio = <<>>
        /\ arg = <<"7", "/", "1", "6">> =>
               result.ok /\ result.val = Length("Quarter", 2)
        /\ arg = <<"/", "2">> => result.ok /\ result.val = Length("Half", 0)
        /\ arg = <<"/", "/">> => result.ok /\ result.val = Length("Quarter", 0)

\* C9: a digit run of the text's surface form that no 32-bit integer holds
\* makes the whole parse fail; length does not fall through to a later form
\* and succeed on a shorter prefix.
C9_OverlongRunFails ==
    (call = "length" /\ SurfaceForm(arg) \in {1, 2} /\ ~RunsFit(arg)) =>
        ~result.ok /\ result.err = "Error"

(***************************************************************************)
(* Properties of Display.                                                  *)
(***************************************************************************)
\* the number a rendered decimal names
SignedValueOf(digits) ==
    IF digits /= <<>> /\ Head(digits) = "-"
    THEN 0 - ValueOf(Tail(digits))
    ELSE ValueOf(digits)

\* C8: a rendered Note is "<", the uppercase key letter, the accidental
\* glyph only if there is an accidental, a space, the shape glyph, as many
\* dot glyphs as the dot count, then ">"; between the dots and ">" stands
\* " @" and the octave if and only if the octave is not 4.  A rendered
\* Length is the shape glyph and as many dot glyphs as its dot count.
C8_Rendering ==
    /\ call = "Note::fmt" =>
           LET k == IF arg.accidental = "None" THEN 2 ELSE 3
               dots == arg.length.dot
               body == k + 2 + dots
           IN  /\ Len(result) > body
               /\ result[1] = "<"
               /\ result[2] = arg.key
               /\ arg.key \in UppercaseKeys
               /\ arg.accidental /= "None" =>
                      result[3] = Accidental_fmt(arg.accidental)
               /\ result[k + 1] = " "
               /\ result[k + 2] = NoteShape_fmt(arg.length.note_shape)
               /\ \A i \in 1..dots : result[k + 2 + i] = DOT
               /\ result[Len(result)] = ">"
               /\ "@" \in Range(result) <=> arg.octave /= 4
               /\ arg.octave = 4 => Len(result) = body + 1
               /\ arg.octave /= 4 =>
                      /\ Len(result) > body + 3
                      /\ result[body + 1] = " "
                      /\ result[body + 2] = "@"
                      /\ SubSeq(result, body + 3, Len(result) - 1)
                             \in SeqsUpTo(DigitChars \cup {"-"}, 3)
                      /\ SignedValueOf(SubSeq(result, body + 3, Len(result) - 1))
                             = arg.octave
    /\ call = "Length::fmt" =>
           /\ Len(result) = 1 + arg.dot
           /\ result[1] = NoteShape_fmt(arg.note_shape)
           /\ \A i \in 2..Len(result) : result[i] = DOT

C8_Witness ==
    /\ call = "Note::fmt"
    /\ arg.octave = 5
    /\ result = <<"<", "B", "U+1D12A", " ", "U+1D160", " ", "@", "5", ">">>

=============================================================================
